---- MODULE Spec2Model ----
(***************************************************************************)
(* LongPortGateway (src/vnpy_longport/longport_gateway.py): the adapter    *)
(* between the vn.py gateway interface and the LongPort SDK.               *)
(*                                                                         *)
(* Python strings are sequences of one-character strings, so that the      *)
(* suffix conversion and str.endswith are computed, not assumed.  A float  *)
(* made from an SDK Decimal d is the tagged value Float(d).  The SDK is    *)
(* external: each SDK call either returns or raises, chosen by \E.         *)
(* datetime.now() stamps are left out of the records.                      *)
(***************************************************************************)
EXTENDS Integers, Sequences, FiniteSets, TLC

VARIABLES
    quote_ctx,      \* self.quote_ctx: "None", or a context the SDK has "Open" / "Closed"
    trade_ctx,      \* self.trade_ctx: the same
    ticks,          \* self.ticks: SDK symbol -> reference to a TickData on the heap
    heap,           \* the TickData objects: reference -> record
    orders,         \* self.orders: broker order id -> OrderData
    sdk_orders,     \* SDK side: how many orders the broker has accepted
    last,           \* observation of the last public operation (call, outcome, events)
    completed,      \* history: the SubscribeRequests whose subscribe returned normally
    connected_ok,   \* history: some connect ran with no step raising
    thr,            \* the SDK's push threads, each inside on_quote or idle
    emitted,        \* the last tick event a push thread put on the event queue
    finished,       \* how many pushes the push threads have handled to the end
    conv            \* the last symbol conversion / reverse lookup evaluated

coreVars == <<quote_ctx, trade_ctx, orders, sdk_orders, last, completed, connected_ok>>
tickVars == <<ticks, heap>>
raceVars == <<thr, emitted, finished>>
vars == <<quote_ctx, trade_ctx, ticks, heap, orders, sdk_orders, last, completed, connected_ok,
          thr, emitted, finished, conv>>

----------------------------------------------------------------------------
(* Strings *)

HK == <<".", "H", "K">>
US == <<".", "U", "S">>
GatewayName == <<"L", "O", "N", "G", "P", "O", "R", "T">>

\* str.endswith
EndsWith(s, suffix) ==
    /\ Len(s) >= Len(suffix)
    /\ SubSeq(s, Len(s) - Len(suffix) + 1, Len(s)) = suffix

\* Exchange members: the two the gateway lists, and one it does not
SEHK == "SEHK"
NYSE == "NYSE"
SMART == "SMART"
Exchanges == {SEHK, NYSE, SMART}
exchanges == {SEHK, NYSE}

_convert_symbol(symbol, exchange) ==
    IF exchange = SEHK THEN symbol \o HK
    ELSE IF exchange = NYSE THEN symbol \o US
    ELSE symbol

\* str.__contains__
Contains(s, part) ==
    \E i \in 1..(Len(s) - Len(part) + 1) : SubSeq(s, i, i + Len(part) - 1) = part

\* _get_exchange looking for the suffix anywhere in the symbol
GetExchangeMutantContains(symbol) ==
    IF Contains(symbol, HK) THEN SEHK
    ELSE IF Contains(symbol, US) THEN NYSE
    ELSE SEHK

_get_exchange(symbol) ==
    IF EndsWith(symbol, HK) THEN SEHK
    ELSE IF EndsWith(symbol, US) THEN NYSE
    ELSE SEHK

----------------------------------------------------------------------------
(* Values *)

\* float(d) of an SDK Decimal d
Float(d) == [float |-> d]

\* the quotes the SDK pushes: six Decimal fields, all different within and across quotes
NumQuotes == 2
PushQuote(k) ==
    [last_done |-> 10 * k + 1, volume |-> 10 * k + 2, open |-> 10 * k + 3,
     high |-> 10 * k + 4, low |-> 10 * k + 5, prev_close |-> 10 * k + 6]
PushQuotes == {PushQuote(k) : k \in 1..NumQuotes}

\* TickData(symbol, exchange, datetime, gateway_name): the price fields default to 0
TickData(symbol, exchange) ==
    [symbol |-> symbol, exchange |-> exchange, gateway_name |-> GatewayName,
     last_price |-> Float(0), volume |-> Float(0), open_price |-> Float(0),
     high_price |-> Float(0), low_price |-> Float(0), pre_close |-> Float(0)]

\* "7.HK" on SMART falls through to the SDK symbol of "7" on SEHK
SubscribeRequests ==
    {[symbol |-> <<"7">>, exchange |-> SEHK],
     [symbol |-> <<"7">>, exchange |-> NYSE],
     [symbol |-> <<"7">> \o HK, exchange |-> SMART]}
SdkSymbols == {<<"7">> \o HK, <<"7">> \o US, <<"7">>}

None == "None"
Held(ctx) == ctx # None

\* events the gateway puts on the event engine
Event(type, data) == [type |-> type, data |-> data]
Log(msg) == Event("eLog", msg)
\* one call into the SDK: what was called, with what, and whether it raised
SdkCall(fn, args, raised) == [fn |-> fn, args |-> args, raised |-> raised, resp |-> <<>>]
\* a call that returned `resp`
SdkReturn(fn, args, resp) == [fn |-> fn, args |-> args, raised |-> FALSE, resp |-> resp]
Fns(o) == [i \in DOMAIN o.sdk |-> o.sdk[i].fn]

\* what one public operation did
Op(op, arg, ret, raised, sdkfail, sdk, events) ==
    [op |-> op, arg |-> arg, ret |-> ret, raised |-> raised, sdkfail |-> sdkfail,
     sdk |-> sdk, events |-> events]

DataEvents(o) == SelectSeq(o.events, LAMBDA e : e.type # "eLog")
EventsOf(o, type) == SelectSeq(o.events, LAMBDA e : e.type = type)

----------------------------------------------------------------------------
(* Operations on the host thread *)

ConnectSteps == {"setting", "config", "quote", "trade", "callback", "none"}

ConnectOrder == <<"setting", "config", "quote", "trade", "callback", "none">>
StepNo(step) == CHOOSE i \in DOMAIN ConnectOrder : ConnectOrder[i] = step

\* the SDK calls connect makes up to and including the one that raises
ConnectCalls(fail) ==
    LET n == StepNo(fail)
    IN  (IF n >= 2 THEN <<SdkCall("Config.from_env", <<>>, n = 2)>> ELSE <<>>)
        \o (IF n >= 3 THEN <<SdkCall("QuoteContext", <<>>, n = 3)>> ELSE <<>>)
        \o (IF n >= 4 THEN <<SdkCall("TradeContext", <<>>, n = 4)>> ELSE <<>>)
        \o (IF n >= 5 THEN <<SdkCall("quote.set_on_quote", <<>>, n = 5)>> ELSE <<>>)

\* connect(setting); `fail` is the first step that raises
Connect(fail) ==
    /\ quote_ctx' = IF fail \in {"trade", "callback", "none"} THEN "Open" ELSE quote_ctx
    /\ trade_ctx' = IF fail \in {"callback", "none"} THEN "Open" ELSE trade_ctx
    /\ connected_ok' = (connected_ok \/ fail = "none")
    /\ last' = Op("connect", fail, None, FALSE, fail # "none",
                  ConnectCalls(fail),
                  <<Log(IF fail = "none" THEN "connect ok" ELSE "connect failed")>>)
    /\ UNCHANGED <<tickVars, orders, sdk_orders, completed, raceVars, conv>>

\* close(); `raises` is the SDK close that raises: "quote", "trade" or "none"
Close(raises) ==
    LET qcall == Held(quote_ctx)
        qfail == qcall /\ raises = "quote"
        tcall == Held(trade_ctx) /\ ~qfail
        tfail == tcall /\ raises = "trade"
    IN  /\ raises \in {"none"} \cup (IF Held(quote_ctx) THEN {"quote"} ELSE {})
                               \cup (IF Held(trade_ctx) THEN {"trade"} ELSE {})
        /\ quote_ctx' = IF qcall /\ ~qfail THEN "Closed" ELSE quote_ctx
        /\ trade_ctx' = IF tcall /\ ~tfail THEN "Closed" ELSE trade_ctx
        /\ last' = Op("close", None, None, qfail \/ tfail, qfail \/ tfail,
                      (IF qcall THEN <<SdkCall("quote.close", <<>>, qfail)>> ELSE <<>>)
                      \o (IF tcall THEN <<SdkCall("trade.close", <<>>, tfail)>> ELSE <<>>),
                      <<>>)
        /\ UNCHANGED <<tickVars, orders, sdk_orders, completed, connected_ok, raceVars, conv>>

\* the SDK's push threads; a thread inside on_quote holds the reference it fetched
NumThreads == 2
Threads == 1..NumThreads
Idle == [pc |-> "idle", event |-> PushQuote(1), tick |-> <<>>, alone |-> TRUE]
Active(t) == thr[t].pc # "idle"

\* the heap without the records that neither self.ticks nor a running handler refers to
Live(h, refs, threads) ==
    [o \in {x \in DOMAIN h : \/ \E s \in DOMAIN refs : refs[s] = x
                             \/ \E t \in DOMAIN threads :
                                   threads[t].pc # "idle" /\ threads[t].tick = x} |-> h[o]]

\* where a new TickData for `symbol` is put: the first place no running handler refers to
\* (the record self.ticks had for the symbol is released by the assignment)
NewTick(symbol) ==
    <<symbol, CHOOSE k \in 1..(NumThreads + 1) :
                 /\ \A t \in Threads : Active(t) => thr[t].tick # <<symbol, k>>
                 /\ \A j \in 1..(k - 1) : \E t \in Threads : Active(t) /\ thr[t].tick = <<symbol, j>>>>

\* self.ticks[symbol] = TickData(...): the effect on self.ticks and the heap
InsertTick(symbol, req) ==
    LET new == NewTick(symbol)
        refs == [s \in DOMAIN ticks \cup {symbol} |-> IF s = symbol THEN new ELSE ticks[s]]
    IN  /\ ticks' = refs
        /\ heap' = Live([o \in DOMAIN heap \cup {new} |->
                           IF o = new THEN TickData(req.symbol, req.exchange) ELSE heap[o]],
                        refs, thr)

\* subscribe(req) with the tick inserted before quote_ctx.subscribe is known to return
SubscribeMutantEarlyInsert(req, ok) ==
    LET symbol == _convert_symbol(req.symbol, req.exchange)
    IN  /\ IF ~Held(quote_ctx)
           THEN /\ ok
                /\ last' = Op("subscribe", req, None, FALSE, FALSE, <<>>, <<>>)
                /\ UNCHANGED <<tickVars, completed>>
           ELSE /\ last' = Op("subscribe", req, None, ~ok, ~ok,
                              <<SdkCall("quote.subscribe", <<symbol>>, ~ok)>>, <<>>)
                /\ InsertTick(symbol, req)
                /\ completed' = IF ok THEN completed \cup {req} ELSE completed
        /\ UNCHANGED <<quote_ctx, trade_ctx, orders, sdk_orders, connected_ok, raceVars, conv>>

\* subscribe(req) writing the fresh values into the record self.ticks already has
SubscribeMutantInPlace(req, ok) ==
    LET symbol == _convert_symbol(req.symbol, req.exchange)
    IN  /\ IF ~Held(quote_ctx)
           THEN /\ ok
                /\ last' = Op("subscribe", req, None, FALSE, FALSE, <<>>, <<>>)
                /\ UNCHANGED <<tickVars, completed>>
           ELSE IF ~ok
           THEN /\ last' = Op("subscribe", req, None, TRUE, TRUE,
                              <<SdkCall("quote.subscribe", <<symbol>>, TRUE)>>, <<>>)
                /\ UNCHANGED <<tickVars, completed>>
           ELSE /\ last' = Op("subscribe", req, None, FALSE, FALSE,
                              <<SdkCall("quote.subscribe", <<symbol>>, FALSE)>>, <<>>)
                /\ IF symbol \in DOMAIN ticks
                   THEN /\ heap' = [heap EXCEPT ![ticks[symbol]] =
                                       TickData(req.symbol, req.exchange)]
                        /\ UNCHANGED ticks
                   ELSE InsertTick(symbol, req)
                /\ completed' = completed \cup {req}
        /\ UNCHANGED <<quote_ctx, trade_ctx, orders, sdk_orders, connected_ok, raceVars, conv>>

\* subscribe(req); `ok` is whether quote_ctx.subscribe returns
Subscribe(req, ok) ==
    LET symbol == _convert_symbol(req.symbol, req.exchange)
    IN  /\ IF ~Held(quote_ctx)
           THEN /\ ok
                /\ last' = Op("subscribe", req, None, FALSE, FALSE, <<>>, <<>>)
                /\ UNCHANGED <<tickVars, completed>>
           ELSE IF ~ok
           THEN /\ last' = Op("subscribe", req, None, TRUE, TRUE,
                              <<SdkCall("quote.subscribe", <<symbol>>, TRUE)>>, <<>>)
                /\ UNCHANGED <<tickVars, completed>>
           ELSE /\ last' = Op("subscribe", req, None, FALSE, FALSE,
                              <<SdkCall("quote.subscribe", <<symbol>>, FALSE)>>, <<>>)
                /\ InsertTick(symbol, req)
                /\ completed' = completed \cup {req}
        /\ UNCHANGED <<quote_ctx, trade_ctx, orders, sdk_orders, connected_ok, raceVars, conv>>

\* the six assignments of on_quote
UpdateTick(tick, event) ==
    [tick EXCEPT !.last_price = Float(event.last_done),
                 !.volume = Float(event.volume),
                 !.open_price = Float(event.open),
                 !.high_price = Float(event.high),
                 !.low_price = Float(event.low),
                 !.pre_close = Float(event.prev_close)]

\* on_quote(symbol, event) run from its first statement to its last with nothing between
OnQuote(symbol, event) ==
    /\ IF symbol \notin DOMAIN ticks
       THEN /\ last' = Op("on_quote", [symbol |-> symbol, event |-> event],
                          None, FALSE, FALSE, <<>>, <<>>)
            /\ UNCHANGED heap
       ELSE LET tick == UpdateTick(heap[ticks[symbol]], event)
            IN  /\ heap' = [heap EXCEPT ![ticks[symbol]] = tick]
                /\ last' = Op("on_quote", [symbol |-> symbol, event |-> event],
                              None, FALSE, FALSE, <<>>, <<Event("eTick", tick)>>)
    /\ UNCHANGED <<quote_ctx, trade_ctx, ticks, orders, sdk_orders, completed, connected_ok,
                   raceVars, conv>>

----------------------------------------------------------------------------
(* Orders *)

\* Decimal(str(x))
Decimal(x) == [decimal |-> x]

_convert_order_type(order_type) ==
    IF order_type = "LIMIT" THEN "LO"
    ELSE IF order_type = "MARKET" THEN "MO"
    ELSE "LO"

_convert_direction(direction) ==
    IF direction = "LONG" THEN "Buy"
    ELSE IF direction = "SHORT" THEN "Sell"
    ELSE "Buy"

\* how many orders the broker accepts in a run
MaxOrders == 2
Digits == <<"1", "2", "3", "4", "5", "6", "7", "8", "9">>
\* the broker's id of its n-th order
OrderId(n) == <<Digits[n]>>

OrderRequests ==
    {[symbol |-> <<"7">>, exchange |-> SEHK, type |-> "LIMIT", direction |-> "LONG",
      price |-> 100, volume |-> 1],
     [symbol |-> <<"7">>, exchange |-> NYSE, type |-> "MARKET", direction |-> "SHORT",
      price |-> 100, volume |-> 1],
     [symbol |-> <<"7">> \o HK, exchange |-> SMART, type |-> "STOP", direction |-> "NET",
      price |-> 100, volume |-> 1]}

\* OrderData(...) as send_order builds it
OrderData(req, orderid) ==
    [symbol |-> req.symbol, exchange |-> req.exchange, orderid |-> orderid,
     type |-> req.type, direction |-> req.direction, price |-> req.price,
     volume |-> req.volume, status |-> "submitting", gateway_name |-> GatewayName]

\* OrderData.vt_orderid, the host's composite order id
vt_orderid(order) == order.gateway_name \o <<".">> \o order.orderid

SubmitArgs(req) ==
    <<_convert_symbol(req.symbol, req.exchange), _convert_order_type(req.type),
      _convert_direction(req.direction), Decimal(req.volume), "Day", Decimal(req.price)>>

\* send_order(req) with the order recorded and emitted before submit_order is known to
\* have returned
SendOrderMutantEmitFirst(req, ok) ==
    /\ IF ~Held(trade_ctx)
       THEN /\ ok
            /\ last' = Op("send_order", req, <<>>, FALSE, FALSE, <<>>, <<>>)
            /\ UNCHANGED <<orders, sdk_orders>>
       ELSE /\ sdk_orders < MaxOrders
            /\ LET orderid == OrderId(sdk_orders + 1)
                   order == OrderData(req, orderid)
               IN  /\ sdk_orders' = sdk_orders + 1
                   /\ orders' = [o \in DOMAIN orders \cup {orderid} |->
                                   IF o = orderid THEN order ELSE orders[o]]
                   /\ last' = IF ok
                              THEN Op("send_order", req, vt_orderid(order), FALSE, FALSE,
                                      <<SdkReturn("trade.submit_order", SubmitArgs(req),
                                                  [order_id |-> orderid])>>,
                                      <<Event("eOrder", order)>>)
                              ELSE Op("send_order", req, <<>>, FALSE, TRUE,
                                      <<SdkCall("trade.submit_order", SubmitArgs(req), TRUE)>>,
                                      <<Event("eOrder", order), Log("send order failed")>>)
    /\ UNCHANGED <<quote_ctx, trade_ctx, tickVars, completed, connected_ok, raceVars, conv>>

\* send_order(req); `ok` is whether trade_ctx.submit_order returns
SendOrder(req, ok) ==
    /\ IF ~Held(trade_ctx)
       THEN /\ ok
            /\ last' = Op("send_order", req, <<>>, FALSE, FALSE, <<>>, <<>>)
            /\ UNCHANGED <<orders, sdk_orders>>
       ELSE IF ~ok
       THEN /\ last' = Op("send_order", req, <<>>, FALSE, TRUE,
                          <<SdkCall("trade.submit_order", SubmitArgs(req), TRUE)>>,
                          <<Log("send order failed")>>)
            /\ UNCHANGED <<orders, sdk_orders>>
       ELSE /\ sdk_orders < MaxOrders
            /\ LET orderid == OrderId(sdk_orders + 1)
                   order == OrderData(req, orderid)
               IN  /\ sdk_orders' = sdk_orders + 1
                   /\ orders' = [o \in DOMAIN orders \cup {orderid} |->
                                   IF o = orderid THEN order ELSE orders[o]]
                   /\ last' = Op("send_order", req, vt_orderid(order), FALSE, FALSE,
                                 <<SdkReturn("trade.submit_order", SubmitArgs(req),
                                             [order_id |-> orderid])>>,
                                 <<Event("eOrder", order)>>)
    /\ UNCHANGED <<quote_ctx, trade_ctx, tickVars, completed, connected_ok, raceVars, conv>>

\* cancel_order(req); `ok` is whether trade_ctx.cancel_order returns
CancelOrder(orderid, ok) ==
    /\ IF ~Held(trade_ctx)
       THEN /\ ok
            /\ last' = Op("cancel_order", orderid, None, FALSE, FALSE, <<>>, <<>>)
       ELSE last' = Op("cancel_order", orderid, None, FALSE, ~ok,
                       <<SdkCall("trade.cancel_order", <<orderid>>, ~ok)>>,
                       IF ok THEN <<>> ELSE <<Log("cancel order failed")>>)
    /\ UNCHANGED <<quote_ctx, trade_ctx, tickVars, orders, sdk_orders, completed, connected_ok,
                   raceVars, conv>>

----------------------------------------------------------------------------
(* Queries *)

SeqsUpTo(S, n) == UNION {[1..k -> S] : k \in 0..n}

_convert_interval(interval) ==
    IF interval = "MINUTE" THEN "Min1"
    ELSE IF interval = "HOUR" THEN "Hour1"
    ELSE IF interval = "DAILY" THEN "Day"
    ELSE "Day"

\* the number of bars query_history asks for
count == 100

\* What the SDK returns.  `malformed` marks an item one of whose fields float() or the
\* record constructor rejects, so that building the record raises inside the try.
CashInfo(currency, withdraw, frozen, malformed) ==
    [currency |-> currency, withdraw_cash |-> withdraw, frozen_cash |-> frozen,
     malformed |-> malformed]
CashInfos == {CashInfo("HKD", 100, 10, FALSE), CashInfo("USD", 200, 20, FALSE),
              CashInfo("HKD", 100, 10, TRUE)}
Currencies == {"HKD", "USD"}
\* accounts after the first one
OtherAccounts == {[cash_infos |-> <<CashInfo("USD", 200, 20, FALSE)>>], [cash_infos |-> <<>>]}
MaxCash == 2
MaxAccounts == 2
AccountResponses ==
    {<<>>} \cup {<<[cash_infos |-> c]>> \o rest :
                    c \in SeqsUpTo(CashInfos, MaxCash),
                    rest \in SeqsUpTo(OtherAccounts, MaxAccounts - 1)}

StockPosition(symbol, malformed) ==
    [symbol |-> symbol, quantity |-> 300, avg_cost |-> 30, unrealized_pnl |-> 3,
     malformed |-> malformed]
StockPositions == {StockPosition(<<"7">> \o US, FALSE), StockPosition(<<"7">> \o HK, TRUE)}
MaxChannels == 2
MaxPositions == 1
PositionResponses ==
    {[channels |-> ch] :
        ch \in SeqsUpTo({[positions |-> ps] : ps \in SeqsUpTo(StockPositions, MaxPositions)},
                        MaxChannels)}

Candlestick(k, malformed) ==
    [timestamp |-> k, open |-> 10 * k + 1, high |-> 10 * k + 2, low |-> 10 * k + 3,
     close |-> 10 * k + 4, volume |-> 10 * k + 5, malformed |-> malformed]
Candlesticks == {Candlestick(1, FALSE), Candlestick(2, FALSE), Candlestick(1, TRUE)}
MaxBars == 2
HistoryRequests ==
    {[symbol |-> <<"7">>, exchange |-> SEHK, interval |-> "MINUTE"],
     [symbol |-> <<"7">>, exchange |-> NYSE, interval |-> "HOUR"],
     [symbol |-> <<"7">>, exchange |-> SEHK, interval |-> "DAILY"],
     [symbol |-> <<"7">> \o HK, exchange |-> SMART, interval |-> "WEEKLY"]}

AccountData(cash_info) ==
    [accountid |-> cash_info.currency, balance |-> Float(cash_info.withdraw_cash),
     frozen |-> Float(cash_info.frozen_cash), gateway_name |-> GatewayName]

PositionData(pos) ==
    [symbol |-> pos.symbol, exchange |-> _get_exchange(pos.symbol), direction |-> "LONG",
     volume |-> Float(pos.quantity), price |-> Float(pos.avg_cost),
     pnl |-> Float(pos.unrealized_pnl), gateway_name |-> GatewayName]

BarData(req, bar) ==
    [symbol |-> req.symbol, exchange |-> req.exchange, datetime |-> bar.timestamp,
     interval |-> req.interval, open_price |-> Float(bar.open),
     high_price |-> Float(bar.high), low_price |-> Float(bar.low),
     close_price |-> Float(bar.close), volume |-> Float(bar.volume),
     gateway_name |-> GatewayName]

\* the cash-info list query_account walks, with every returned account walked
CashOfAllAccounts(accounts) ==
    LET F[i \in 0..Len(accounts)] ==
            IF i = 0 THEN <<>> ELSE F[i - 1] \o accounts[i].cash_infos
    IN  F[Len(accounts)]

\* the cash-info list query_account walks: that of the first account
CashOfFirstAccount(accounts) == accounts[1].cash_infos

\* the loop of query_account: what it emits, and whether building a record raised
RECURSIVE AccountLoop(_)
AccountLoop(cash_infos) ==
    IF cash_infos = <<>> THEN [raised |-> FALSE, events |-> <<>>]
    ELSE IF Head(cash_infos).malformed THEN [raised |-> TRUE, events |-> <<>>]
    ELSE LET rest == AccountLoop(Tail(cash_infos))
         IN  [raised |-> rest.raised,
              events |-> <<Log("account created"),
                           Event("eAccount", AccountData(Head(cash_infos))),
                           Log("account sent")>> \o rest.events]

\* query_account(); `ok` is whether trade_ctx.account_balance returns, `accounts` what
QueryAccount(ok, accounts) ==
    /\ ok \/ accounts = <<>>
    /\ IF ~Held(trade_ctx)
       THEN /\ ok /\ accounts = <<>>
            /\ last' = Op("query_account", None, None, FALSE, FALSE, <<>>,
                          <<Log("query account failed: no trade context")>>)
       ELSE IF ~ok
       THEN last' = Op("query_account", None, None, FALSE, TRUE,
                       <<SdkCall("trade.account_balance", <<>>, TRUE)>>,
                       <<Log("query account start"), Log("query account failed")>>)
       ELSE IF accounts = <<>>
       THEN last' = Op("query_account", None, None, FALSE, FALSE,
                       <<SdkReturn("trade.account_balance", <<>>, accounts)>>,
                       <<Log("query account start"), Log("query account got"),
                         Log("no account")>>)
       ELSE LET loop == AccountLoop(CashOfFirstAccount(accounts))
            IN  last' = Op("query_account", None, None, FALSE, FALSE,
                           <<SdkReturn("trade.account_balance", <<>>, accounts)>>,
                           <<Log("query account start"), Log("query account got")>>
                           \o loop.events
                           \o (IF loop.raised THEN <<Log("query account failed")>> ELSE <<>>))
    /\ UNCHANGED <<quote_ctx, trade_ctx, tickVars, orders, sdk_orders, completed, connected_ok,
                   raceVars, conv>>

\* the inner loop of query_position, over one channel
RECURSIVE PositionLoop(_)
PositionLoop(positions) ==
    IF positions = <<>> THEN [raised |-> FALSE, events |-> <<>>]
    ELSE IF Head(positions).malformed THEN [raised |-> TRUE, events |-> <<>>]
    ELSE LET rest == PositionLoop(Tail(positions))
         IN  [raised |-> rest.raised,
              events |-> <<Log("position created"),
                           Event("ePosition", PositionData(Head(positions))),
                           Log("position sent")>> \o rest.events]

\* the outer loop of query_position, over the channels
RECURSIVE ChannelLoop(_)
ChannelLoop(channels) ==
    IF channels = <<>> THEN [raised |-> FALSE, events |-> <<>>]
    ELSE LET first == PositionLoop(Head(channels).positions)
         IN  IF first.raised THEN first
             ELSE LET rest == ChannelLoop(Tail(channels))
                  IN  [raised |-> rest.raised, events |-> first.events \o rest.events]

\* query_position(); `ok` is whether trade_ctx.stock_positions returns, `positions` what
QueryPosition(ok, positions) ==
    /\ ok \/ positions = [channels |-> <<>>]
    /\ IF ~Held(trade_ctx)
       THEN /\ ok /\ positions = [channels |-> <<>>]
            /\ last' = Op("query_position", None, None, FALSE, FALSE, <<>>,
                          <<Log("query position failed: no trade context")>>)
       ELSE IF ~ok
       THEN last' = Op("query_position", None, None, FALSE, TRUE,
                       <<SdkCall("trade.stock_positions", <<>>, TRUE)>>,
                       <<Log("query position start"), Log("query position failed")>>)
       ELSE LET loop == ChannelLoop(positions.channels)
            IN  last' = Op("query_position", None, None, FALSE, FALSE,
                           <<SdkReturn("trade.stock_positions", <<>>, positions)>>,
                           <<Log("query position start"), Log("query position got")>>
                           \o loop.events
                           \o (IF loop.raised THEN <<Log("query position failed")>> ELSE <<>>))
    /\ UNCHANGED <<quote_ctx, trade_ctx, tickVars, orders, sdk_orders, completed, connected_ok,
                   raceVars, conv>>

\* the loop of query_history with each bar put in front of the result
RECURSIVE BarLoopMutantPrepend(_, _, _)
BarLoopMutantPrepend(req, bars, result) ==
    IF bars = <<>> THEN [raised |-> FALSE, result |-> result]
    ELSE IF Head(bars).malformed THEN [raised |-> TRUE, result |-> result]
    ELSE BarLoopMutantPrepend(req, Tail(bars), <<BarData(req, Head(bars))>> \o result)

\* the loop of query_history: result.append(bar_data) for each bar, until one raises
RECURSIVE BarLoop(_, _, _)
BarLoop(req, bars, result) ==
    IF bars = <<>> THEN [raised |-> FALSE, result |-> result]
    ELSE IF Head(bars).malformed THEN [raised |-> TRUE, result |-> result]
    ELSE BarLoop(req, Tail(bars), Append(result, BarData(req, Head(bars))))

\* query_history(req); `ok` is whether quote_ctx.candlesticks returns, `bars` what
QueryHistory(req, ok, bars) ==
    LET args == <<_convert_symbol(req.symbol, req.exchange), _convert_interval(req.interval),
                  count, "NoAdjust">>
        head == <<Log("history symbol"), Log("history period"), Log("history start")>>
        loop == BarLoop(req, bars, <<>>)
    IN  /\ ok \/ bars = <<>>
        /\ IF ~Held(quote_ctx)
           THEN /\ ok /\ bars = <<>>
                /\ last' = Op("query_history", req, <<>>, FALSE, FALSE, <<>>,
                              <<Log("query history failed: no quote context")>>)
           ELSE IF ~ok
           THEN last' = Op("query_history", req, <<>>, FALSE, TRUE,
                           <<SdkCall("quote.candlesticks", args, TRUE)>>,
                           head \o <<Log("query history failed")>>)
           ELSE IF loop.raised
           THEN last' = Op("query_history", req, <<>>, FALSE, FALSE,
                           <<SdkReturn("quote.candlesticks", args, bars)>>,
                           head \o <<Log("history got"), Log("query history failed")>>)
           ELSE last' = Op("query_history", req, loop.result, FALSE, FALSE,
                           <<SdkReturn("quote.candlesticks", args, bars)>>,
                           head \o <<Log("history got"), Log("history converted")>>)
        /\ UNCHANGED <<quote_ctx, trade_ctx, tickVars, orders, sdk_orders, completed,
                       connected_ok, raceVars, conv>>

----------------------------------------------------------------------------
(* Symbol conversion on its own *)

Chars == {"7", ".", "H", "K", "U", "S"}
MaxLen == 4
Strings == SeqsUpTo(Chars, MaxLen)

ConvInput(s, ex) == [op |-> "input", s |-> s, ex |-> ex, sdk |-> <<>>, back |-> None]

\* _convert_symbol(s, ex) evaluated
ConvertSymbol ==
    /\ conv.op = "input"
    /\ conv' = [conv EXCEPT !.op = "converted", !.sdk = _convert_symbol(conv.s, conv.ex)]
    /\ UNCHANGED <<coreVars, tickVars, raceVars>>

\* _get_exchange(s) evaluated
GetExchange ==
    /\ conv.op = "input"
    /\ conv' = [conv EXCEPT !.op = "looked up", !.back = _get_exchange(conv.s)]
    /\ UNCHANGED <<coreVars, tickVars, raceVars>>

\* _get_exchange evaluated on what _convert_symbol returned
GetExchangeOfConverted ==
    /\ conv.op = "converted"
    /\ conv' = [conv EXCEPT !.op = "round trip", !.back = _get_exchange(conv.sdk)]
    /\ UNCHANGED <<coreVars, tickVars, raceVars>>

----------------------------------------------------------------------------
(* on_quote on the SDK's push threads, one statement a step *)

\* how many quotes the SDK pushes in a run; its k-th is PushQuote(k)
MaxPushes == 2
RaceSymbol == <<"7">> \o HK
RaceRequests == {[symbol |-> <<"7">>, exchange |-> SEHK]}

\* the pushes delivered so far: one per handler that is running or has finished
Pushed == Cardinality({t \in Threads : Active(t)}) + finished

\* on_quote entered on thread t with the SDK's next quote: tick = self.ticks.get(symbol);
\* if not tick: return.  The SDK's threads are interchangeable: the lowest idle one runs.
RGet(t) ==
    /\ ~Active(t)
    /\ \A u \in Threads : u < t => Active(u)
    /\ Pushed < MaxPushes
    /\ IF RaceSymbol \notin DOMAIN ticks
       THEN /\ finished' = finished + 1
            /\ UNCHANGED thr
       ELSE /\ thr' = [u \in Threads |->
                         IF u = t
                         THEN [pc |-> "last_price", event |-> PushQuote(Pushed + 1),
                               tick |-> ticks[RaceSymbol],
                               alone |-> \A v \in Threads \ {t} : ~Active(v)]
                         ELSE IF Active(u) THEN [thr[u] EXCEPT !.alone = FALSE] ELSE thr[u]]
            /\ UNCHANGED finished
    /\ UNCHANGED <<coreVars, tickVars, emitted, conv>>

\* the statement of on_quote after the one that assigns `field`
NextPc(field) ==
    CASE field = "last_price" -> "volume"
      [] field = "volume" -> "open_price"
      [] field = "open_price" -> "high_price"
      [] field = "high_price" -> "low_price"
      [] field = "low_price" -> "pre_close"
      [] field = "pre_close" -> "on_tick"

\* what on_quote assigns to `field`
Assigned(field, event) ==
    CASE field = "last_price" -> Float(event.last_done)
      [] field = "volume" -> Float(event.volume)
      [] field = "open_price" -> Float(event.open)
      [] field = "high_price" -> Float(event.high)
      [] field = "low_price" -> Float(event.low)
      [] field = "pre_close" -> Float(event.prev_close)

\* one assignment tick.<field> = float(event.<field>) on thread t
RWrite(t) ==
    /\ thr[t].pc \notin {"idle", "on_tick"}
    /\ heap' = [heap EXCEPT ![thr[t].tick] =
                  [f \in DOMAIN @ |-> IF f = thr[t].pc THEN Assigned(f, thr[t].event) ELSE @[f]]]
    /\ thr' = [thr EXCEPT ![t].pc = NextPc(thr[t].pc)]
    /\ UNCHANGED <<coreVars, ticks, emitted, finished, conv>>

\* self.on_tick(tick) on thread t, and the return of on_quote
REmit(t) ==
    /\ thr[t].pc = "on_tick"
    /\ emitted' = <<[tick |-> heap[thr[t].tick], event |-> thr[t].event,
                     alone |-> thr[t].alone]>>
    /\ thr' = [thr EXCEPT ![t] = Idle]
    /\ heap' = Live(heap, ticks, thr')
    /\ finished' = finished + 1
    /\ UNCHANGED <<coreVars, ticks, conv>>

----------------------------------------------------------------------------

InitCore ==
    /\ quote_ctx = None
    /\ trade_ctx = None
    /\ ticks = <<>>
    /\ heap = <<>>
    /\ orders = <<>>
    /\ sdk_orders = 0
    /\ last = Op("init", None, None, FALSE, FALSE, <<>>, <<>>)
    /\ completed = {}
    /\ connected_ok = FALSE

InitRaceVars ==
    /\ thr = [t \in Threads |-> Idle]
    /\ emitted = <<>>
    /\ finished = 0

\* the adapter as constructed
Init ==
    /\ InitCore
    /\ InitRaceVars
    /\ conv = ConvInput(<<>>, SEHK)

\* a symbol and an exchange to convert
InitConv ==
    /\ InitCore
    /\ InitRaceVars
    /\ conv \in {ConvInput(s, ex) : s \in Strings, ex \in Exchanges}

\* the adapter after a first connect in which no step raised
InitRace ==
    /\ quote_ctx = "Open"
    /\ trade_ctx = "Open"
    /\ ticks = <<>>
    /\ heap = <<>>
    /\ orders = <<>>
    /\ sdk_orders = 0
    /\ last = Op("connect", "none", None, FALSE, FALSE, ConnectCalls("none"),
                 <<Log("connect ok")>>)
    /\ completed = {}
    /\ connected_ok = TRUE
    /\ InitRaceVars
    /\ conv = ConvInput(<<>>, SEHK)

\* the quote side of the adapter, its operations called one at a time
Next ==
    \/ \E fail \in ConnectSteps : Connect(fail)
    \/ \E raises \in {"none", "quote", "trade"} : Close(raises)
    \/ \E req \in SubscribeRequests, ok \in BOOLEAN : Subscribe(req, ok)
    \/ \E symbol \in SdkSymbols, event \in PushQuotes : OnQuote(symbol, event)

Spec == Init /\ [][Next]_vars

\* the order side of the adapter
NextOrder ==
    \/ \E fail \in ConnectSteps : Connect(fail)
    \/ \E raises \in {"none", "quote", "trade"} : Close(raises)
    \/ \E req \in OrderRequests, ok \in BOOLEAN : SendOrder(req, ok)
    \/ \E n \in 1..MaxOrders, ok \in BOOLEAN : CancelOrder(OrderId(n), ok)

SpecOrder == Init /\ [][NextOrder]_vars

\* the queries of the adapter
NextQuery ==
    \/ \E fail \in ConnectSteps : Connect(fail)
    \/ \E ok \in BOOLEAN, accounts \in AccountResponses : QueryAccount(ok, accounts)
    \/ \E ok \in BOOLEAN, positions \in PositionResponses : QueryPosition(ok, positions)
    \/ \E req \in HistoryRequests, ok \in BOOLEAN, bars \in SeqsUpTo(Candlesticks, MaxBars) :
          QueryHistory(req, ok, bars)

SpecQuery == Init /\ [][NextQuery]_vars

\* the two conversions between host and SDK symbols
NextConv ==
    \/ ConvertSymbol
    \/ GetExchange
    \/ GetExchangeOfConverted

SpecConv == InitConv /\ [][NextConv]_vars

\* quote pushes handled on the SDK's threads while the host subscribes again
NextRace ==
    \/ \E req \in RaceRequests : Subscribe(req, TRUE)
    \/ \E t \in Threads : RGet(t)
    \/ \E t \in Threads : RWrite(t)
    \/ \E t \in Threads : REmit(t)

SpecRace == InitRace /\ [][NextRace]_vars

----------------------------------------------------------------------------
(* Claims about the quote side, under Spec *)

SdkSymbolOf(req) == _convert_symbol(req.symbol, req.exchange)
NeverSubscribed(symbol) == \A r \in completed : SdkSymbolOf(r) # symbol

\* C2: a quote push for an SDK symbol for which no subscribe has ever completed
\* emits no tick event, raises nothing and leaves the tick cache as it was.
C2_UnsubscribedPushDropped ==
    [][(last'.op = "on_quote" /\ NeverSubscribed(last'.arg.symbol))
        => /\ ticks' = ticks
           /\ heap' = heap
           /\ last'.events = <<>>
           /\ ~last'.raised]_vars

\* C2 witness: with the quote context held and another symbol in the cache, a push
\* for a symbol whose subscribe never completed has been handled.
C2_Witness ==
    /\ last.op = "on_quote"
    /\ NeverSubscribed(last.arg.symbol)
    /\ Held(quote_ctx)
    /\ DOMAIN ticks # {}

\* C6: the adapter is either disconnected (neither context held) or connected (both
\* held), it is connected only after a connect in which no step raised, and a connect
\* in which a step raised logs the failure.
C6_TwoConnectionStates ==
    /\ Held(quote_ctx) <=> Held(trade_ctx)
    /\ (Held(quote_ctx) /\ Held(trade_ctx)) => connected_ok
    /\ (last.op = "connect" /\ last.arg # "none") => last.events = <<Log("connect failed")>>

\* C7: no public operation raises to the host; when the SDK call inside it fails the
\* operation has emitted a log event, no data event, and added no tick or order record.
C7_NoOperationRaises ==
    [][/\ ~last'.raised
       /\ last'.sdkfail =>
            /\ EventsOf(last', "eLog") # <<>>
            /\ DataEvents(last') = <<>>
            /\ DOMAIN ticks' = DOMAIN ticks
            /\ DOMAIN orders' = DOMAIN orders]_vars

\* C8: close calls the SDK's close on each context the adapter holds and does nothing
\* else: no event, no SDK call and no exception when nothing is held, and the context
\* references, tick cache and order records stay as they were, so that a subscribe
\* after connect and close is still forwarded to the SDK.
C8_CloseOnlyClosesContexts ==
    [][/\ last'.op = "close" =>
            /\ Fns(last') = (IF Held(quote_ctx) THEN <<"quote.close">> ELSE <<>>)
                            \o (IF Held(trade_ctx) THEN <<"trade.close">> ELSE <<>>)
            /\ last'.events = <<>>
            /\ (~Held(quote_ctx) /\ ~Held(trade_ctx)) => ~last'.raised
            /\ Held(quote_ctx') = Held(quote_ctx)
            /\ Held(trade_ctx') = Held(trade_ctx)
            /\ ticks' = ticks
            /\ heap' = heap
            /\ orders' = orders
       /\ (last'.op = "subscribe" /\ quote_ctx = "Closed") =>
            Fns(last') = <<"quote.subscribe">>]_vars

\* C9: once a subscribe has returned normally, the entry under its SDK symbol stays in
\* the tick cache, and every later push for that SDK symbol emits exactly one tick
\* event carrying the host symbol and exchange of that subscription.
C9_TickKeepsItsSubscription ==
    /\ \A r \in completed : SdkSymbolOf(r) \in DOMAIN ticks
    /\ last.op = "on_quote" =>
         \A r \in completed :
            SdkSymbolOf(r) = last.arg.symbol =>
               /\ Len(EventsOf(last, "eTick")) = 1
               /\ EventsOf(last, "eTick")[1].data.symbol = r.symbol
               /\ EventsOf(last, "eTick")[1].data.exchange = r.exchange

----------------------------------------------------------------------------
(* Claims about orders, under SpecOrder *)

\* C1: a send_order made while the trade context is held returns the non-empty id
\* '<gateway name>.<broker order id>' and emits exactly one order event, of status
\* "submitting", if submit_order returns; if submit_order raises it returns the empty
\* string, emits no order event, adds no order record and raises nothing.
C1_SendOrderOutcome ==
    [][(last'.op = "send_order" /\ Held(trade_ctx)) =>
          IF ~last'.sdk[1].raised
          THEN /\ last'.ret = GatewayName \o <<".">> \o last'.sdk[1].resp.order_id
               /\ last'.ret # <<>>
               /\ Len(DataEvents(last')) = 1
               /\ DataEvents(last')[1].type = "eOrder"
               /\ DataEvents(last')[1].data.status = "submitting"
               /\ ~last'.raised
          ELSE /\ last'.ret = <<>>
               /\ EventsOf(last', "eOrder") = <<>>
               /\ orders' = orders
               /\ ~last'.raised]_vars

\* C1 witness: after an accepted order, a second send_order's submit_order raised.
C1_Witness ==
    /\ last.op = "send_order"
    /\ Held(trade_ctx)
    /\ last.sdkfail
    /\ last.ret = <<>>
    /\ DOMAIN orders # {}

----------------------------------------------------------------------------
(* Claims about the queries, under SpecQuery *)

AccountEvents == EventsOf(last, "eAccount")
EventsFor(currency) == SelectSeq(AccountEvents, LAMBDA e : e.data.accountid = currency)
NoneMalformed(items) == \A i \in DOMAIN items : ~items[i].malformed
\* the entries in front of the first one that cannot be converted
RECURSIVE Convertible(_)
Convertible(items) ==
    IF items = <<>> \/ Head(items).malformed THEN <<>>
    ELSE <<Head(items)>> \o Convertible(Tail(items))

\* C4 as stated: with the trade context held and account_balance returning, query_account
\* emits exactly one account event per distinct currency of the first account's cash-info
\* list and none for the other accounts; with no account returned it emits none.
C4_OneEventPerDistinctCurrency ==
    (last.op = "query_account" /\ Held(trade_ctx) /\ ~last.sdkfail) =>
        /\ ~last.raised
        /\ IF last.sdk[1].resp = <<>>
           THEN AccountEvents = <<>>
           ELSE NoneMalformed(last.sdk[1].resp[1].cash_infos) =>
                  \A c \in Currencies :
                     Len(EventsFor(c)) =
                        IF \E i \in DOMAIN last.sdk[1].resp[1].cash_infos :
                              last.sdk[1].resp[1].cash_infos[i].currency = c
                        THEN 1 ELSE 0

\* C4 as amended: query_account emits one account event per entry of the first account's
\* cash-info list, in list order, up to the first entry whose conversion raises, and
\* none for the other accounts; with no account returned it emits none; it never raises.
C4_OneEventPerCashInfo ==
    (last.op = "query_account" /\ Held(trade_ctx) /\ ~last.sdkfail) =>
        /\ ~last.raised
        /\ IF last.sdk[1].resp = <<>>
           THEN AccountEvents = <<>>
           ELSE LET entries == Convertible(last.sdk[1].resp[1].cash_infos)
                IN  /\ Len(AccountEvents) = Len(entries)
                    /\ \A i \in DOMAIN entries :
                          /\ AccountEvents[i].data.accountid = entries[i].currency
                          /\ AccountEvents[i].data.balance = Float(entries[i].withdraw_cash)
                          /\ AccountEvents[i].data.frozen = Float(entries[i].frozen_cash)

\* C4 witness: the first of two accounts lists one currency twice, and two events for
\* that currency have been emitted.
C4_Witness ==
    /\ last.op = "query_account"
    /\ Held(trade_ctx)
    /\ ~last.sdkfail
    /\ Len(last.sdk[1].resp) = 2
    /\ Len(last.sdk[1].resp[1].cash_infos) = 2
    /\ last.sdk[1].resp[2].cash_infos # <<>>
    /\ Len(EventsFor("HKD")) = 2

\* C5: query_history returns one bar per bar the SDK returned, the i-th the conversion
\* of the SDK's i-th, when candlesticks returns and every bar converts; it returns the
\* empty sequence when the call or a conversion raises or the quote context is absent;
\* it never raises.
C5_HistoryInOrder ==
    last.op = "query_history" =>
        /\ ~last.raised
        /\ IF Held(quote_ctx) /\ ~last.sdkfail /\ NoneMalformed(last.sdk[1].resp)
           THEN /\ Len(last.ret) = Len(last.sdk[1].resp)
                /\ \A i \in DOMAIN last.ret :
                      /\ last.ret[i].datetime = last.sdk[1].resp[i].timestamp
                      /\ last.ret[i].open_price = Float(last.sdk[1].resp[i].open)
                      /\ last.ret[i].high_price = Float(last.sdk[1].resp[i].high)
                      /\ last.ret[i].low_price = Float(last.sdk[1].resp[i].low)
                      /\ last.ret[i].close_price = Float(last.sdk[1].resp[i].close)
                      /\ last.ret[i].volume = Float(last.sdk[1].resp[i].volume)
                      /\ last.ret[i].symbol = last.arg.symbol
                      /\ last.ret[i].exchange = last.arg.exchange
                      /\ last.ret[i].interval = last.arg.interval
           ELSE last.ret = <<>>

\* C5 witness: the SDK returned a newer bar in front of an older one and both came back
\* in that order.
C5_Witness ==
    /\ last.op = "query_history"
    /\ Len(last.ret) = 2
    /\ last.sdk[1].resp[1].timestamp > last.sdk[1].resp[2].timestamp
    /\ last.ret[1].datetime > last.ret[2].datetime

----------------------------------------------------------------------------
(* Claims about the symbol conversions, under SpecConv *)

HasSuffix(s, suffix) == \E n \in 0..Len(s) : s = SubSeq(s, 1, n) \o suffix

\* C3: conversion yields s + ".HK" for Hong Kong and s + ".US" for New York; the reverse
\* lookup maps a string ending in ".HK" to Hong Kong, one ending in ".US" to New York
\* and any other to Hong Kong; so the lookup of a converted symbol gives back either
\* supported exchange.
C3_ConversionRoundTrip ==
    /\ conv.op \in {"converted", "round trip"} =>
         /\ conv.ex = SEHK => conv.sdk = conv.s \o <<".", "H", "K">>
         /\ conv.ex = NYSE => conv.sdk = conv.s \o <<".", "U", "S">>
    /\ conv.op = "looked up" =>
         /\ HasSuffix(conv.s, <<".", "H", "K">>) => conv.back = SEHK
         /\ HasSuffix(conv.s, <<".", "U", "S">>) => conv.back = NYSE
         /\ (~HasSuffix(conv.s, <<".", "H", "K">>) /\ ~HasSuffix(conv.s, <<".", "U", "S">>))
               => conv.back = SEHK
    /\ (conv.op = "round trip" /\ conv.ex \in exchanges) => conv.back = conv.ex

\* C3 witness: a ticker that itself ends in ".HK", converted for New York and looked up.
C3_Witness ==
    /\ conv.op = "round trip"
    /\ conv.ex = NYSE
    /\ conv.s = <<"7", ".", "H", "K">>
    /\ conv.back = NYSE

----------------------------------------------------------------------------
(* Claims about concurrent pushes, under SpecRace *)

CarriesPush(tick, event) ==
    /\ tick.last_price = Float(event.last_done)
    /\ tick.volume = Float(event.volume)
    /\ tick.open_price = Float(event.open)
    /\ tick.high_price = Float(event.high)
    /\ tick.low_price = Float(event.low)
    /\ tick.pre_close = Float(event.prev_close)

HasFieldOf(tick, event) ==
    \/ tick.last_price = Float(event.last_done)
    \/ tick.volume = Float(event.volume)
    \/ tick.open_price = Float(event.open)
    \/ tick.high_price = Float(event.high)
    \/ tick.low_price = Float(event.low)
    \/ tick.pre_close = Float(event.prev_close)

====
